---- MODULE Spec2Model ----
(***************************************************************************)
(* Model of the two Streamlit pages src/src/home.py ("src") and            *)
(* src/app/src/home.py ("app").  Each page is a script that Streamlit      *)
(* re-executes top to bottom after every widget event; st.session_state    *)
(* and the widget values survive from one script run to the next.  The two *)
(* pages are run side by side on the same sequence of widget events.       *)
(*                                                                         *)
(* A Python str is a sequence of tokens, so that + is \o and the `in`      *)
(* test on slider labels is a real substring test.  One script run is one  *)
(* action; what it did, in order, is kept in lastRun[v].trace.             *)
(*                                                                         *)
(* Helpers imported from the utility module are external: a call is        *)
(* logged and its result (or the fact that it raised) is chosen by the     *)
(* environment.  read_key_value is taken to return normally.               *)
(***************************************************************************)
EXTENDS Integers, Sequences, FiniteSets, TLC

VARIABLES
    started,        \* the page has been rendered at least once
    rag_on,         \* value of the 'Activate RAG' select_slider
    option,         \* value of the 'Choose Model' selectbox
    upload_docs,    \* value of the file_uploader (exists only in Update mode)
    session_state,  \* [variant -> st.session_state]
    data_dir,       \* contents of ./data/ of the src page: file name -> bytes
    lastIn,         \* the inputs of the latest script run
    lastRun,        \* [variant -> what the latest script run did]
    runs,           \* number of script runs so far
    submitted,      \* number of prompts submitted so far
    answered        \* [variant -> generation/retrieval helper calls so far]

vars == <<started, rag_on, option, upload_docs, session_state, data_dir,
          lastIn, lastRun, runs, submitted, answered>>

----------------------------------------------------------------------------
(* Bounds *)

MaxRuns == 4
MaxUploads == 2

----------------------------------------------------------------------------
(* Values *)

Variants == {"src", "app"}

None_ == <<"N", "o", "n", "e">>
Update == <<"U", "p", "d", "a", "t", "e">>
Retrieval == <<"R", "e", "t", "r", "i", "e", "v", "a", "l">>

SliderOptions == {None_, Update, Retrieval}

ModelOptions ==
    { <<"anthropic.claude-3-haiku-20240307-v1:0">>,
      <<"anthropic.claude-3-sonnet-20240229-v1:0">>,
      <<"anthropic.claude-instant-v1">>,
      <<"anthropic.claude-v2:1">> }

DefaultModel == <<"anthropic.claude-3-haiku-20240307-v1:0">>

\* The source string starts with a pen glyph after the blank:
\* "\n\n <pen>Content created by using: ".
Suffix == <<"\n\n Content created by using: ">>

Greeting ==
    [role |-> "assistant",
     content |-> <<"I am your assistant. How can I help today?">>]

\* st.chat_input() returns None until the user submits a text.
NoPrompt == [isNone |-> TRUE, text |-> <<>>]
Prompts == { [isNone |-> FALSE, text |-> <<t>>] : t \in {"p1", "p2"} }

\* Uploaded files: .name and .read().
Files == { [name |-> "a.pdf", bytes |-> 1], [name |-> "a.pdf", bytes |-> 2],
           [name |-> "b.png", bytes |-> 1] }

EmptyDir == [n \in {} |-> 0]
StaleDir == [n \in {"old.doc"} |-> 9]

\* What the helpers return when they return.
GenResult == <<"r1">>
\* bedrock_kb_injection(file_path) of the src page: (stats, status, kb_id)
InjResultSrc == <<"stats", "status", "kb_id">>
\* bedrock_kb_injection() of the app page: (msg, status)
InjResultApp == <<"msg", "status">>

\* A raise ends the script run, so at most one helper call of a run raises.
\* failAt = k > 0: the k-th helper call made after the two read_key_value
\* calls raises; failAt = 0: every helper call returns.  No run makes more
\* than two such calls.
FailPoints == 0..2

----------------------------------------------------------------------------
(* Python primitives *)

\* Python `sub in s` on str.
In(sub, s) ==
    \E i \in 0..(Len(s) - Len(sub)) : SubSeq(s, i + 1, i + Len(sub)) = sub

\* Truth value of `prompt := st.chat_input()`.
PromptTruthy(p) == ~p.isNone /\ Len(p.text) > 0

\* Truth value of a list.
ListTruthy(l) == Len(l) > 0

----------------------------------------------------------------------------
(* One script run, as a fold over a context                                *)
(*   ss     : st.session_state                                             *)
(*   dir    : contents of ./data/                                          *)
(*   trace  : what the run did so far, in order                            *)
(*   raised : an exception ended the run                                   *)
(*   failAt : which helper call raises (see FailPoints)                    *)

NoMsg == [role |-> "", content |-> <<>>]

Entry(op, what, msg, dir) == [op |-> op, what |-> what, msg |-> msg, dir |-> dir]

Log(c, e) == [c EXCEPT !.trace = Append(@, e)]

HandlerCalls(trace) ==
    SelectSeq(trace, LAMBDA e : e.op = "call" /\ e.what # "read_key_value")

\* A call of a helper of the utility module by one of the handlers.
CallHelper(c, fn) ==
    IF c.raised THEN c
    ELSE LET c1 == Log(c, Entry("call", fn, NoMsg, c.dir))
         IN IF Len(HandlerCalls(c1.trace)) = c.failAt
            THEN [c1 EXCEPT !.raised = TRUE]
            ELSE c1

\* st.session_state.messages.append(m)
AppendMessage(c, m) ==
    IF c.raised THEN c
    ELSE IF "messages" \notin DOMAIN c.ss THEN [c EXCEPT !.raised = TRUE]
    ELSE Log([c EXCEPT !.ss.messages = Append(@, m)],
             Entry("append", "messages", m, EmptyDir))

\* st.session_state["messages"] = [greeting]
SetGreeting(c) ==
    Log([c EXCEPT !.ss = [messages |-> <<Greeting>>]],
        Entry("set", "messages", Greeting, EmptyDir))

\* aoss_host = read_key_value(...); aoss_index = read_key_value(...)
ReadConfig(c) ==
    Log(Log(c, Entry("call", "read_key_value", NoMsg, c.dir)),
        Entry("call", "read_key_value", NoMsg, c.dir))

\* Variant: the first branch of the sidebar tests for 'Retrieval'.
rag_update_Retrieval(ro) == In(Retrieval, ro)

\* Variant: rag_retrieval is set in the 'Update' branch too.
rag_retrieval_AlsoOnUpdate(ro) == In(Update, ro) \/ In(Retrieval, ro)

\* Sidebar: rag_update = rag_retrieval = False, then the if/elif on rag_on.
rag_update(ro) == In(Update, ro)

rag_retrieval(ro) == IF In(Update, ro) THEN FALSE ELSE In(Retrieval, ro)

\* Variant: the button only clears the list.
ClearChatHistory_OnlyClear(c, clicked) ==
    IF c.raised \/ ~clicked THEN c
    ELSE IF "messages" \notin DOMAIN c.ss THEN [c EXCEPT !.raised = TRUE]
    ELSE Log([c EXCEPT !.ss = [messages |-> <<>>]],
             Entry("set", "messages", NoMsg, EmptyDir))

\* if st.button("Clear Chat History"): messages.clear(); messages = [greeting]
ClearChatHistory(c, clicked) ==
    IF c.raised \/ ~clicked THEN c
    ELSE IF "messages" \notin DOMAIN c.ss THEN [c EXCEPT !.raised = TRUE]
    ELSE SetGreeting(c)

\* Variant: the greeting is assigned without the `not in` guard.
InitMessages_Unguarded(c) == IF c.raised THEN c ELSE SetGreeting(c)

\* if "messages" not in st.session_state: ...
InitMessages(c) ==
    IF c.raised \/ "messages" \in DOMAIN c.ss THEN c ELSE SetGreeting(c)

----------------------------------------------------------------------------
(* The three handlers *)

\* Variant: both pages call bedrock_kb_retrieval.
RetrievalHelper_Plain(v) == "bedrock_kb_retrieval"

\* The retrieval helper each page calls.
RetrievalHelper(v) ==
    IF v = "src" THEN "bedrock_kb_retrieval_advanced" ELSE "bedrock_kb_retrieval"

\* Variant: an answer given before to the same prompt is reused.
Answer_Cached(c, fn, inp) ==
    IF ~PromptTruthy(inp.prompt) THEN c
    ELSE LET user == [role |-> "user", content |-> inp.prompt.text]
             seen == ~c.raised /\ "messages" \in DOMAIN c.ss
                     /\ \E i \in 1..Len(c.ss.messages) : c.ss.messages[i] = user
             c1 == AppendMessage(c, user)
             c2 == IF seen THEN c1 ELSE CallHelper(c1, fn)
         IN AppendMessage(c2, [role |-> "assistant",
                               content |-> GenResult \o Suffix \o inp.option])

\* Variant: the user message is appended once the helper has returned.
Answer_AppendAfter(c, fn, inp) ==
    IF ~PromptTruthy(inp.prompt) THEN c
    ELSE LET c1 == CallHelper(c, fn)
             c2 == AppendMessage(c1, [role |-> "user", content |-> inp.prompt.text])
         IN AppendMessage(c2, [role |-> "assistant",
                               content |-> GenResult \o Suffix \o inp.option])

\* Variant: the user message is taken back when the helper raises.
Answer_Rollback(c, fn, inp) ==
    IF ~PromptTruthy(inp.prompt) THEN c
    ELSE LET c1 == AppendMessage(c, [role |-> "user", content |-> inp.prompt.text])
             c2 == CallHelper(c1, fn)
         IN IF c2.raised /\ ~c.raised
            THEN [c2 EXCEPT !.ss = c.ss,
                            !.trace = SelectSeq(@, LAMBDA e : e.op # "append")]
            ELSE AppendMessage(c2, [role |-> "assistant",
                                    content |-> GenResult \o Suffix \o inp.option])

\* if prompt := st.chat_input(): append user; msg = helper(...);
\* msg += suffix + option; append assistant
Answer(c, fn, inp) ==
    IF ~PromptTruthy(inp.prompt) THEN c
    ELSE LET c1 == AppendMessage(c, [role |-> "user", content |-> inp.prompt.text])
             c2 == CallHelper(c1, fn)
         IN AppendMessage(c2, [role |-> "assistant",
                               content |-> GenResult \o Suffix \o inp.option])

\* What empty_directory leaves of a directory.
empty_directory(dir) == EmptyDir

CallEmptyDirectory(c) ==
    LET c1 == CallHelper(c, "empty_directory")
    IN IF c1.raised THEN c1 ELSE [c1 EXCEPT !.dir = empty_directory(c.dir)]

\* for upload_doc in upload_docs: open(file_path+upload_doc.name,'wb').write(...)
RECURSIVE WriteFiles(_, _)
WriteFiles(c, docs) ==
    IF c.raised \/ docs = <<>> THEN c
    ELSE LET f == Head(docs)
             d == [n \in (DOMAIN c.dir) \cup {f.name} |->
                     IF n = f.name THEN f.bytes ELSE c.dir[n]]
         IN WriteFiles(Log([c EXCEPT !.dir = d], Entry("write", f.name, NoMsg, d)),
                       Tail(docs))

\* f'Total {stats}  to Amazon Bedrock Knowledge Base: {kb_id}  with status: {status}.'
StatusMessage(ret) ==
    <<"Total ", ret[1], "  to Amazon Bedrock Knowledge Base: ", ret[3],
      "  with status: ", ret[2], ".">>

\* Variant: ./data/ is not emptied before the files are written.
UpdateSrc_KeepOldFiles(c, inp) ==
    IF ~ListTruthy(inp.upload_docs) THEN c
    ELSE LET c1 == CallHelper(c, "empty_directory")
             c2 == WriteFiles(c1, inp.upload_docs)
             c3 == CallHelper(c2, "bedrock_kb_injection")
         IN AppendMessage(c3, [role |-> "assistant",
                               content |-> StatusMessage(InjResultSrc)])

\* src page, `if rag_update:` branch
UpdateSrc(c, inp) ==
    IF ~ListTruthy(inp.upload_docs) THEN c
    ELSE LET c1 == CallEmptyDirectory(c)
             c2 == WriteFiles(c1, inp.upload_docs)
             c3 == CallHelper(c2, "bedrock_kb_injection")
         IN AppendMessage(c3, [role |-> "assistant",
                               content |-> StatusMessage(InjResultSrc)])

\* Variant: the app page injects only when a file is uploaded.
UpdateApp_OnUpload(c, inp) ==
    IF ~ListTruthy(inp.upload_docs) THEN c
    ELSE AppendMessage(CallHelper(c, "bedrock_kb_injection"),
                       [role |-> "assistant", content |-> <<InjResultApp[1]>>])

\* app page, `if rag_update:` branch: msg, status = bedrock_kb_injection()
UpdateApp(c, inp) ==
    LET c1 == CallHelper(c, "bedrock_kb_injection")
    IN AppendMessage(c1, [role |-> "assistant", content |-> <<InjResultApp[1]>>])

\* if rag_update: ... elif rag_retrieval: ... else: ...
ModeDispatch(v, c, inp) ==
    IF rag_update(inp.rag_on)
    THEN IF v = "src" THEN UpdateSrc(c, inp) ELSE UpdateApp(c, inp)
    ELSE IF rag_retrieval(inp.rag_on)
         THEN Answer(c, RetrievalHelper(v), inp)
         ELSE Answer(c, "bedrock_textGen", inp)

\* The whole script, top to bottom.
Script(v, ss, dir, inp, failAt) ==
    LET c0 == [ss |-> ss, dir |-> dir, trace |-> <<>>, raised |-> FALSE,
               failAt |-> failAt]
        c1 == ReadConfig(c0)
        c2 == ClearChatHistory(c1, inp.clear)
        c3 == InitMessages(c2)
    IN ModeDispatch(v, c3, inp)

----------------------------------------------------------------------------
(* Reading a trace *)

Calls(trace) == SelectSeq(trace, LAMBDA e : e.op = "call")

CallsOf(trace, fns) == SelectSeq(trace, LAMBDA e : e.op = "call" /\ e.what \in fns)

Appends(trace) == SelectSeq(trace, LAMBDA e : e.op = "append")

AnswerHelpers ==
    {"bedrock_textGen", "bedrock_kb_retrieval", "bedrock_kb_retrieval_advanced"}

----------------------------------------------------------------------------
(* Script runs *)

EmptySessionState == [k \in {} |-> <<>>]

Init ==
    /\ started = FALSE
    /\ rag_on = None_
    /\ option = DefaultModel
    /\ upload_docs = <<>>
    /\ session_state = [v \in Variants |-> EmptySessionState]
    /\ data_dir \in {EmptyDir, StaleDir}
    /\ lastIn = [rag_on |-> None_, option |-> DefaultModel, upload_docs |-> <<>>,
                 clear |-> FALSE, prompt |-> NoPrompt]
    /\ lastRun = [v \in Variants |->
                    [rag_update |-> FALSE, rag_retrieval |-> FALSE,
                     trace |-> <<>>, raised |-> FALSE]]
    /\ runs = 0
    /\ submitted = 0
    /\ answered = [v \in Variants |-> 0]

\* Both pages execute their script once on the inputs inp.
Run(inp) ==
    /\ runs < MaxRuns
    /\ \E failAt \in [Variants -> FailPoints] :
         \E r \in { [v \in Variants |->
                       Script(v, session_state[v],
                              IF v = "src" THEN data_dir ELSE EmptyDir, inp,
                              failAt[v])] } :
            /\ session_state' = [v \in Variants |-> r[v].ss]
            /\ data_dir' = r["src"].dir
            /\ lastRun' = [v \in Variants |->
                             [rag_update |-> rag_update(inp.rag_on),
                              rag_retrieval |-> rag_retrieval(inp.rag_on),
                              trace |-> r[v].trace, raised |-> r[v].raised]]
            /\ answered' = [v \in Variants |->
                              answered[v] + Len(CallsOf(r[v].trace, AnswerHelpers))]
    /\ started' = TRUE
    /\ rag_on' = inp.rag_on
    /\ option' = inp.option
    /\ upload_docs' = inp.upload_docs
    /\ lastIn' = inp
    /\ runs' = runs + 1
    /\ submitted' = submitted + (IF inp.prompt.isNone THEN 0 ELSE 1)

Widgets == [rag_on |-> rag_on, option |-> option, upload_docs |-> upload_docs,
            clear |-> FALSE, prompt |-> NoPrompt]

\* The browser opens the page: every widget has its default value.
FirstRun ==
    /\ ~started
    /\ Run(Widgets)

\* A number_input or text_input of the sidebar changes, or the page is rerun.
ChangeParameter ==
    /\ started
    /\ Run(Widgets)

MoveSlider ==
    /\ started
    /\ \E ro \in SliderOptions \ {rag_on} :
         Run([Widgets EXCEPT !.rag_on = ro, !.upload_docs = <<>>])

ChooseModel ==
    /\ started
    /\ \E o \in ModelOptions \ {option} : Run([Widgets EXCEPT !.option = o])

\* The file_uploader exists only while the slider is on 'Update'; the user
\* adds one file to it or removes one file from it.
RemoveAt(l, i) == SubSeq(l, 1, i - 1) \o SubSeq(l, i + 1, Len(l))

UploadFiles ==
    /\ started
    /\ rag_update(rag_on)
    /\ \/ /\ Len(upload_docs) < MaxUploads
          /\ \E f \in Files : Run([Widgets EXCEPT !.upload_docs = Append(upload_docs, f)])
       \/ \E i \in 1..Len(upload_docs) :
            Run([Widgets EXCEPT !.upload_docs = RemoveAt(upload_docs, i)])

\* st.chat_input() exists only in the retrieval and generate branches.
SubmitPrompt ==
    /\ started
    /\ ~rag_update(rag_on)
    /\ \E p \in Prompts : Run([Widgets EXCEPT !.prompt = p])

ClickClear ==
    /\ started
    /\ Run([Widgets EXCEPT !.clear = TRUE])

Next ==
    \/ FirstRun
    \/ ChangeParameter
    \/ MoveSlider
    \/ ChooseModel
    \/ UploadFiles
    \/ SubmitPrompt
    \/ ClickClear

Spec == Init /\ [][Next]_vars

TypeOK ==
    /\ started \in BOOLEAN
    /\ rag_on \in SliderOptions
    /\ option \in ModelOptions
    /\ runs \in 0..MaxRuns

----------------------------------------------------------------------------
(* Observations used by the properties *)

HasMessages(v) == "messages" \in DOMAIN session_state[v]

Roles(msgs) == [i \in 1..Len(msgs) |-> msgs[i].role]

Whats(trace) == [i \in 1..Len(trace) |-> trace[i].what]

\* What the run did after the sidebar and the initialization guard.
HandlerPart(trace) ==
    SelectSeq(trace, LAMBDA e : e.op # "set" /\ e.what # "read_key_value")

PromptSubmitted == ~lastIn.prompt.isNone

\* The handler a helper belongs to.
HandlerOf(fn) ==
    IF fn \in {"bedrock_kb_injection", "empty_directory"} THEN "update"
    ELSE IF fn \in {"bedrock_kb_retrieval", "bedrock_kb_retrieval_advanced"}
         THEN "retrieve"
         ELSE "generate"

HandlersCalled(trace) ==
    { HandlerOf(HandlerCalls(trace)[i].what) : i \in 1..Len(HandlerCalls(trace)) }

----------------------------------------------------------------------------
\* C1: in every script run of either page the flags rag_update and
\* rag_retrieval are never both true, and the run calls helpers of at most
\* one of the three handlers (bedrock_kb_injection, the retrieval helper,
\* bedrock_textGen).
C1_HandlersMutuallyExclusive ==
    \A v \in Variants :
        /\ ~(lastRun[v].rag_update /\ lastRun[v].rag_retrieval)
        /\ Cardinality(HandlersCalled(lastRun[v].trace)) <= 1
        /\ Len(CallsOf(lastRun[v].trace,
                       {"bedrock_kb_injection"} \cup AnswerHelpers)) <= 1

\* Each of the three handlers has made its call in some run.
C1_Witness ==
    /\ lastRun["app"].rag_update
    /\ HandlersCalled(lastRun["app"].trace) = {"update"}
    /\ \E i \in 1..Len(session_state["src"].messages) :
          session_state["src"].messages[i].role = "user"

\* C2: the handler of a run is selected by the current slider value alone:
\* 'Update' selects the update branch, 'Retrieval' the retrieve branch and
\* 'None' the generate branch, whatever the earlier runs were; a run whose
\* slider is on 'Update' has no submitted prompt and appends no user message.
C2_SliderSelectsHandler ==
    started =>
    \A v \in Variants :
        LET t == lastRun[v].trace
        IN /\ lastIn.rag_on = rag_on
           /\ rag_on = Update =>
                 /\ lastRun[v].rag_update /\ ~lastRun[v].rag_retrieval
                 /\ HandlersCalled(t) \subseteq {"update"}
                 /\ ~PromptSubmitted
                 /\ \A i \in 1..Len(t) : t[i].msg.role # "user"
           /\ rag_on = Retrieval =>
                 /\ lastRun[v].rag_retrieval /\ ~lastRun[v].rag_update
                 /\ HandlersCalled(t) = IF PromptSubmitted THEN {"retrieve"} ELSE {}
           /\ rag_on = None_ =>
                 /\ ~lastRun[v].rag_retrieval /\ ~lastRun[v].rag_update
                 /\ HandlersCalled(t) = IF PromptSubmitted THEN {"generate"} ELSE {}

\* A run on 'Update' that follows runs in which prompts were answered.
C2_Witness ==
    /\ rag_on = Update
    /\ HandlersCalled(lastRun["app"].trace) = {"update"}
    /\ submitted >= 1
    /\ runs >= 3

NamedHelpers ==
    {"read_key_value", "bedrock_kb_injection", "bedrock_kb_retrieval",
     "bedrock_textGen", "empty_directory"}

\* C3 as stated: every helper call of either page is a call of read_key_value,
\* bedrock_kb_injection, bedrock_kb_retrieval, bedrock_textGen or
\* empty_directory, and a prompt submitted in Retrieval mode is answered by
\* calling bedrock_kb_retrieval.
C3_OnlyFiveHelpers ==
    \A v \in Variants :
        LET calls == Calls(lastRun[v].trace)
        IN /\ \A i \in 1..Len(calls) : calls[i].what \in NamedHelpers
           /\ (rag_on = Retrieval /\ PromptSubmitted) =>
                 Len(CallsOf(lastRun[v].trace, {"bedrock_kb_retrieval"})) = 1

\* C3 amended: every helper call is a call of one of the five named helpers
\* or of bedrock_kb_retrieval_advanced; a prompt submitted in Retrieval mode
\* is answered by bedrock_kb_retrieval in the app page and by
\* bedrock_kb_retrieval_advanced in the src page, which never calls
\* bedrock_kb_retrieval.
C3_SixHelpers ==
    /\ \A v \in Variants :
        LET calls == Calls(lastRun[v].trace)
        IN \A i \in 1..Len(calls) :
              calls[i].what \in NamedHelpers \cup {"bedrock_kb_retrieval_advanced"}
    /\ (rag_on = Retrieval /\ PromptSubmitted) =>
          /\ Whats(HandlerCalls(lastRun["app"].trace)) = <<"bedrock_kb_retrieval">>
          /\ Whats(HandlerCalls(lastRun["src"].trace)) = <<"bedrock_kb_retrieval_advanced">>
    /\ CallsOf(lastRun["src"].trace, {"bedrock_kb_retrieval"}) = <<>>
    /\ CallsOf(lastRun["app"].trace, {"bedrock_kb_retrieval_advanced"}) = <<>>

\* A prompt submitted in Retrieval mode has been answered in both pages.
C3_Witness ==
    /\ rag_on = Retrieval
    /\ PromptSubmitted
    /\ \A v \in Variants : ~lastRun[v].raised
    /\ \A v \in Variants : Len(session_state[v].messages) = 3

----------------------------------------------------------------------------
(* The two pages side by side *)

History(v) == IF HasMessages(v) THEN session_state[v].messages ELSE <<>>

SameRoles == Roles(History("src")) = Roles(History("app"))

\* The model or the knowledge base is called (empty_directory is local).
RemoteCalls(trace) ==
    CallsOf(trace, {"bedrock_kb_injection"} \cup AnswerHelpers)

SameDispatch ==
    /\ lastRun["src"].rag_update = lastRun["app"].rag_update
    /\ lastRun["src"].rag_retrieval = lastRun["app"].rag_retrieval
    /\ \A h \in HandlersCalled(lastRun["src"].trace) :
          HandlersCalled(lastRun["app"].trace) \subseteq {h}

SameRemoteDecision ==
    (RemoteCalls(lastRun["src"].trace) = <<>>) <=> (RemoteCalls(lastRun["app"].trace) = <<>>)

NoRaise == \A v \in Variants : ~lastRun[v].raised

\* C4 as stated: on the same sequence of UI events the two pages keep chat
\* histories of equal length with the same sequence of roles, and in each run
\* dispatch to the same handler with the same decision whether a remote call
\* is made (read for runs in which no helper raises).
C4_PagesEquivalent ==
    [][ (SameRoles /\ NoRaise') => (SameRoles /\ SameDispatch /\ SameRemoteDecision)' ]_vars

\* C4 amended: in each run the two pages dispatch to the same handler.  In
\* generate and retrieve mode they take the same decision whether a remote
\* call is made.  A run that ends in both pages normally, or in both by a
\* raising helper, keeps histories of equal role sequence equal, unless it
\* is an Update-mode run with no uploaded file: there the app page calls
\* bedrock_kb_injection and appends an assistant message while the src page
\* does nothing.
C4_PagesEquivalentButUpdate ==
    [][ /\ SameDispatch'
        /\ ~rag_update(rag_on') => SameRemoteDecision'
        /\ ( /\ SameRoles
             /\ lastRun'["src"].raised = lastRun'["app"].raised
             /\ ~(rag_update(rag_on') /\ upload_docs' = <<>>) ) => SameRoles'
        /\ (rag_update(rag_on') /\ upload_docs' = <<>>) =>
              /\ HandlerPart(lastRun'["src"].trace) = <<>>
              /\ Whats(HandlerCalls(lastRun'["app"].trace)) = <<"bedrock_kb_injection">>
              /\ lastRun'["app"].raised \/
                   Len(Appends(lastRun'["app"].trace)) = 1
      ]_vars

\* Both pages answered a prompt and both injected uploaded files, and their
\* histories still have the same roles.
C4_Witness ==
    /\ rag_update(rag_on) /\ upload_docs # <<>>
    /\ NoRaise
    /\ SameRoles
    /\ Roles(History("src")) = <<"assistant", "user", "assistant", "assistant">>

----------------------------------------------------------------------------
\* C5: no retry and no caching: a run with a submitted prompt makes exactly
\* one call of the generation/retrieval helper, a run without one makes none,
\* and over any sequence of runs the number of such calls equals the number
\* of prompts submitted.
C5_OneCallPerPrompt ==
    \A v \in Variants :
        /\ answered[v] = submitted
        /\ Len(CallsOf(lastRun[v].trace, AnswerHelpers)) = IF PromptSubmitted THEN 1 ELSE 0

\* The same prompt was submitted twice and the helper was called twice.
C5_Witness ==
    /\ submitted = 2
    /\ \A v \in Variants :
          /\ answered[v] = 2
          /\ Len(History(v)) = 5
          /\ History(v)[2] = History(v)[4]
          /\ History(v)[2].role = "user"

\* C6: a run with the slider on 'None' or 'Retrieval', no submitted prompt
\* and no click on 'Clear Chat History' leaves st.session_state.messages as
\* the previous run left it and calls no generation, retrieval or injection
\* helper.
C6_IdleRunKeepsHistory ==
    [][ ( /\ started
          /\ ~rag_update(lastIn'.rag_on)
          /\ lastIn'.prompt = NoPrompt
          /\ ~lastIn'.clear )
        => /\ session_state' = session_state
           /\ \A v \in Variants : RemoteCalls(lastRun'[v].trace) = <<>> ]_vars

\* A run caused by choosing another model, with an answered prompt in the
\* history.
C6_Witness ==
    /\ ~rag_update(rag_on)
    /\ lastIn.prompt = NoPrompt /\ ~lastIn.clear
    /\ option # DefaultModel
    /\ \A v \in Variants : Len(History(v)) = 3
    /\ \A v \in Variants : History(v)[3].content = GenResult \o Suffix \o DefaultModel

----------------------------------------------------------------------------
(* Answering a prompt *)

UserMessage(p) == [role |-> "user", content |-> p.text]

AnswerHelper(v, ro) == IF ro = Retrieval THEN RetrievalHelper(v) ELSE "bedrock_textGen"

\* C7: when a prompt is submitted in generate or retrieve mode and the helper
\* returns normally, the run appends the user message with the prompt, then
\* calls the helper, then appends the assistant message whose content is the
\* helper result followed by the suffix and the model id selected in that
\* run; the history is the previous history extended by exactly these two
\* messages.
C7_PromptExtendsHistoryByTwo ==
    [][ \A v \in Variants :
          ( /\ ~rag_update(rag_on')
            /\ ~lastIn'.prompt.isNone
            /\ ~lastRun'[v].raised )
          => LET user == UserMessage(lastIn'.prompt)
                 assistant == [role |-> "assistant",
                               content |-> GenResult \o Suffix \o option']
             IN /\ HandlerPart(lastRun'[v].trace) =
                      << Entry("append", "messages", user, EmptyDir),
                         Entry("call", AnswerHelper(v, rag_on'), NoMsg,
                               HandlerPart(lastRun'[v].trace)[2].dir),
                         Entry("append", "messages", assistant, EmptyDir) >>
                /\ session_state'[v].messages =
                      session_state[v].messages \o <<user, assistant>> ]_vars

\* A prompt was answered with a model other than the default one.
C7_Witness ==
    /\ PromptSubmitted
    /\ NoRaise
    /\ option # DefaultModel
    /\ \A v \in Variants :
          /\ Len(History(v)) = 3
          /\ History(v)[2] = UserMessage(lastIn.prompt)
          /\ History(v)[3].content = GenResult \o Suffix \o option

\* Position of the first assignment to st.session_state["messages"] in a
\* trace (0 if none).
FirstSet(trace) ==
    IF \E i \in 1..Len(trace) : trace[i].op = "set"
    THEN CHOOSE i \in 1..Len(trace) :
            /\ trace[i].op = "set"
            /\ \A j \in 1..(i - 1) : trace[j].op # "set"
    ELSE 0

\* C8: after any run the chat history is non-empty and starts with the
\* assistant greeting; a click on 'Clear Chat History' replaces the history by
\* the single greeting before the mode handler of that run does anything, so
\* the history then is the greeting followed by what that handler appended.
C8_GreetingFirst ==
    started =>
    \A v \in Variants :
        LET t == lastRun[v].trace
            k == FirstSet(t)
        IN /\ HasMessages(v)
           /\ Len(session_state[v].messages) >= 1
           /\ session_state[v].messages[1] = Greeting
           /\ lastIn.clear =>
                 /\ k > 0
                 /\ t[k].msg = Greeting
                 /\ \A j \in 1..(k - 1) : t[j].what = "read_key_value"
                 /\ session_state[v].messages =
                       <<Greeting>> \o
                       [i \in 1..Len(Appends(t)) |-> Appends(t)[i].msg]

\* 'Clear Chat History' was clicked on a history of several messages, and the
\* handler of that run appended a message after the greeting.
C8_Witness ==
    /\ lastIn.clear
    /\ runs = 4
    /\ Len(History("app")) = 2
    /\ Len(History("src")) = 1
    /\ submitted = 1

\* C9: if the helper called for a submitted prompt raises, the user message
\* appended in that run stays in the history and no assistant message follows
\* it; the next answered prompt then leaves two user-role messages adjacent.
C9_NoRollbackOnRaise ==
    [][ \A v \in Variants :
          LET old == session_state[v].messages
              new == session_state'[v].messages
          IN /\ (~lastIn'.prompt.isNone /\ lastRun'[v].raised) =>
                   /\ new = old \o <<UserMessage(lastIn'.prompt)>>
                   /\ Len(Appends(lastRun'[v].trace)) = 1
             /\ ( /\ started
                  /\ old[Len(old)].role = "user"
                  /\ ~lastIn'.prompt.isNone
                  /\ ~lastRun'[v].raised ) =>
                   /\ Len(new) = Len(old) + 2
                   /\ new[Len(old)].role = "user"
                   /\ new[Len(old) + 1].role = "user"
                   /\ new[Len(old) + 2].role = "assistant" ]_vars

\* A helper raised on one prompt and the next prompt was answered.
C9_Witness ==
    \A v \in Variants :
        /\ Roles(History(v)) = <<"assistant", "user", "user", "assistant">>
        /\ ~lastRun[v].raised

----------------------------------------------------------------------------
(* Updating the knowledge base, src page *)

\* The directory that holds exactly the files docs, a later file replacing
\* an earlier one of the same name.
DirOf(docs) ==
    [n \in { docs[i].name : i \in 1..Len(docs) } |->
        LET last == CHOOSE i \in 1..Len(docs) :
                        /\ docs[i].name = n
                        /\ \A j \in (i + 1)..Len(docs) : docs[j].name # n
        IN docs[last].bytes]

StatusEntry ==
    Entry("append", "messages",
          [role |-> "assistant", content |-> StatusMessage(InjResultSrc)], EmptyDir)

====
